---- MODULE Spec2Model ----
(***************************************************************************)
(* Model of the consultation template renderer                             *)
(* (class ConsultationTemplateRenderer, src/unnamed/part_000).             *)
(*                                                                         *)
(* A JavaScript string is a sequence of characters.  A character is a      *)
(* one-character string; a character outside ASCII is written by its code  *)
(* point, "U+0111" for d-with-stroke.  Fixed message texts that the code    *)
(* only concatenates are single atoms of such a sequence.                   *)
(***************************************************************************)
EXTENDS Integers, Sequences, FiniteSets, TLC

VARIABLES
    vnLastIndex,   \* VIETNAMESE_PLACEHOLDER_PATTERN.lastIndex
    phLastIndex,   \* PLACEHOLDER_PATTERN.lastIndex
    call,          \* the public operation called last, with its arguments
    ret            \* what that call returned or threw

vars == <<vnLastIndex, phLastIndex, call, ret>>

----------------------------------------------------------------------------
(* Character classes of the regular expressions                            *)

\* \s
Whitespace == {" ", "\n"}

\* [.!?]
SentenceEnd == {".", "!", "?"}

\* [,.!?]
Punctuation == {",", ".", "!", "?"}

\* [a-z]
AsciiLower == <<"a", "b", "c", "d", "e", "f", "g", "h", "i", "j", "k", "l", "m",
                "n", "o", "p", "q", "r", "s", "t", "u", "v", "w", "x", "y", "z">>

AsciiUpper == <<"A", "B", "C", "D", "E", "F", "G", "H", "I", "J", "K", "L", "M",
                "N", "O", "P", "Q", "R", "S", "T", "U", "V", "W", "X", "Y", "Z">>

\* [A-Z...] of postProcessVietnameseText: A-Z and the accented capitals
VietnameseUpper ==
    {AsciiUpper[i] : i \in 1..26} \cup
    {"U+00C1", "U+00C0", "U+1EA2", "U+00C3", "U+1EA0", "U+0102", "U+1EB0", "U+1EAE",
     "U+1EB2", "U+1EB4", "U+1EB6", "U+00C2", "U+1EA6", "U+1EA4", "U+1EA8", "U+1EAA",
     "U+1EAC", "U+00C9", "U+00C8", "U+1EBA", "U+1EBC", "U+1EB8", "U+00CA", "U+1EC0",
     "U+1EBE", "U+1EC2", "U+1EC4", "U+1EC6", "U+00CD", "U+00CC", "U+1EC8", "U+0128",
     "U+1ECA", "U+00D3", "U+00D2", "U+1ECE", "U+00D5", "U+1ECC", "U+00D4", "U+1ED2",
     "U+1ED0", "U+1ED4", "U+1ED6", "U+1ED8", "U+01A0", "U+1EDC", "U+1EDA", "U+1EDE",
     "U+1EE0", "U+1EE2", "U+00DA", "U+00D9", "U+1EE6", "U+0168", "U+1EE4", "U+01AF",
     "U+1EEA", "U+1EE8", "U+1EEC", "U+1EEE", "U+1EF0", "U+00DD", "U+1EF2", "U+1EF6",
     "U+1EF8", "U+1EF4", "U+0110"}

IsAsciiLower(c) == \E i \in 1..26 : AsciiLower[i] = c

\* String.prototype.toUpperCase on one character matched by [a-z]
toUpperCase(c) == AsciiUpper[CHOOSE i \in 1..26 : AsciiLower[i] = c]

----------------------------------------------------------------------------
(* String primitives                                                       *)

Min(S) == CHOOSE x \in S : \A y \in S : x <= y
Max(S) == CHOOSE x \in S : \A y \in S : x >= y

\* String.prototype.trim
trim(s) ==
    LET keep == {i \in 1..Len(s) : s[i] \notin Whitespace}
    IN  IF keep = {} THEN <<>> ELSE SubSeq(s, Min(keep), Max(keep))

\* String.prototype.includes on sequences
includes(s, t) ==
    \E i \in 0..(Len(s) - Len(t)) : SubSeq(s, i + 1, i + Len(t)) = t

\* (template.match(/c/g) || []).length
countChar(s, c) == Cardinality({i \in 1..Len(s) : s[i] = c})

\* .replace(/\s+/g, ' ')
RECURSIVE collapseWhitespaceFrom(_, _)
collapseWhitespaceFrom(s, i) ==
    IF i > Len(s) THEN <<>>
    ELSE IF s[i] \in Whitespace
         THEN (IF i > 1 /\ s[i - 1] \in Whitespace THEN <<>> ELSE <<" ">>)
              \o collapseWhitespaceFrom(s, i + 1)
         ELSE <<s[i]>> \o collapseWhitespaceFrom(s, i + 1)

collapseWhitespace(s) == collapseWhitespaceFrom(s, 1)

\* .replace(/([.!?])\s*$/, '$1'): the leftmost sentence end followed only by
\* whitespace up to the end of the string keeps the mark and loses the rest
fixSentenceEnding(s) ==
    LET hits == {i \in 1..Len(s) :
                    s[i] \in SentenceEnd /\ \A j \in (i + 1)..Len(s) : s[j] \in Whitespace}
    IN  IF hits = {} THEN s ELSE SubSeq(s, 1, Min(hits))

\* variant: the value keeps its first letter as it is
capitalizeFirstSkipped(s) == s

\* .replace(/^([a-z])/, (match) => match.toUpperCase())
capitalizeFirst(s) ==
    IF s # <<>> /\ IsAsciiLower(s[1]) THEN <<toUpperCase(s[1])>> \o Tail(s) ELSE s

\* .replace(/\s+([,.!?])/g, '$1'): a whitespace character is removed when the
\* whitespace run from it rightwards ends at a punctuation mark
RECURSIVE removeSpaceBeforePunctFrom(_, _)
removeSpaceBeforePunctFrom(s, i) ==
    IF i > Len(s) THEN <<>>
    ELSE LET dropped ==
                 /\ s[i] \in Whitespace
                 /\ \E k \in (i + 1)..Len(s) :
                        /\ s[k] \in Punctuation
                        /\ \A j \in i..(k - 1) : s[j] \in Whitespace
         IN  (IF dropped THEN <<>> ELSE <<s[i]>>) \o removeSpaceBeforePunctFrom(s, i + 1)

\* variant: /\s([,.!?])/g, one whitespace character before the mark
removeOneSpaceBeforePunct(s) ==
    SelectSeq([i \in 1..Len(s) |->
                  IF s[i] \in Whitespace /\ i < Len(s) /\ s[i + 1] \in Punctuation
                  THEN "" ELSE s[i]],
              LAMBDA c : c # "")

removeSpaceBeforePunct(s) == removeSpaceBeforePunctFrom(s, 1)

\* .replace(/([.!?])([A-Z...])/g, '$1 $2')
RECURSIVE spaceAfterPunctFrom(_, _)
spaceAfterPunctFrom(s, i) ==
    IF i > Len(s) THEN <<>>
    ELSE IF s[i] \in SentenceEnd /\ i < Len(s) /\ s[i + 1] \in VietnameseUpper
         THEN <<s[i], " ">> \o spaceAfterPunctFrom(s, i + 1)
         ELSE <<s[i]>> \o spaceAfterPunctFrom(s, i + 1)

spaceAfterPunct(s) == spaceAfterPunctFrom(s, 1)

----------------------------------------------------------------------------
(* The two placeholder patterns and the regular-expression engine          *)

\* /\{([^}]+)\}/g
PLACEHOLDER_PATTERN == [open |-> <<"{">>, close |-> <<"}">>]

\* /\{\{([^}]+)\}\}/g
VIETNAMESE_PLACEHOLDER_PATTERN == [open |-> <<"{", "{">>, close |-> <<"}", "}">>]

\* where the greedy group [^}]+ started at j stops: the first "}" or the end
groupEnd(s, j) ==
    LET stops == {k \in j..Len(s) : s[k] = "}"}
    IN  IF stops = {} THEN Len(s) + 1 ELSE Min(stops)

\* the pattern matches at position i (1-based).  The group is greedy and a
\* shorter group cannot help: the character after it would not be "}".
matchesUpTo(pattern, s, i, k) ==
    /\ i + Len(pattern.open) - 1 <= Len(s)
    /\ SubSeq(s, i, i + Len(pattern.open) - 1) = pattern.open
    /\ k > i + Len(pattern.open)
    /\ k + Len(pattern.close) - 1 <= Len(s)
    /\ SubSeq(s, k, k + Len(pattern.close) - 1) = pattern.close

matchesAt(pattern, s, i) ==
    matchesUpTo(pattern, s, i, groupEnd(s, i + Len(pattern.open)))

\* RegExp.prototype.exec of a global pattern: search from lastIndex, return the
\* match and the new lastIndex, or null with lastIndex reset to 0
\* the match at i whose group ends before k
matchUpTo(pattern, s, i, k) ==
    [found |-> TRUE,
     index |-> i,
     group |-> SubSeq(s, i + Len(pattern.open), k - 1),
     lastIndex |-> k + Len(pattern.close) - 1]

matchAt(pattern, s, i) ==
    matchUpTo(pattern, s, i, groupEnd(s, i + Len(pattern.open)))

\* at: the positions after lastIndex where the pattern matches
execAmong(pattern, s, lastIndex, at) ==
    IF lastIndex > Len(s) \/ at = {}
    THEN [found |-> FALSE, lastIndex |-> 0]
    ELSE matchAt(pattern, s, Min(at))

exec(pattern, s, lastIndex) ==
    execAmong(pattern, s, lastIndex,
              {i \in (lastIndex + 1)..Len(s) : matchesAt(pattern, s, i)})

\* the matches a global pattern finds scanning s from lastIndex to the end:
\* while ((match = pattern.exec(s)) !== null)
RECURSIVE execAll(_, _, _)
execLoop(pattern, s, match) ==
    IF match.found THEN <<match>> \o execAll(pattern, s, match.lastIndex) ELSE <<>>

execAll(pattern, s, lastIndex) == execLoop(pattern, s, exec(pattern, s, lastIndex))

----------------------------------------------------------------------------
(* JavaScript values and property lookup                                   *)

\* names every plain object inherits from Object.prototype; their values
\* are functions, not strings
ObjectPrototypeKeys ==
    {<<"v", "a", "l", "u", "e", "O", "f">>,
     <<"t", "o", "S", "t", "r", "i", "n", "g">>,
     <<"c", "o", "n", "s", "t", "r", "u", "c", "t", "o", "r">>}

\* consultationData[key]: an own field, else an inherited member, else undefined
getField(consultationData, key) ==
    IF key \in DOMAIN consultationData
    THEN [kind |-> "string", s |-> consultationData[key]]
    ELSE IF key \in ObjectPrototypeKeys
         THEN [kind |-> "function"]
         ELSE [kind |-> "undefined"]

\* JavaScript truthiness of such a value
truthy(v) == v.kind = "function" \/ (v.kind = "string" /\ v.s # <<>>)

returned(v) == [threw |-> FALSE, value |-> v]
thrown(message) == [threw |-> TRUE, error |-> [isError |-> TRUE, message |-> message]]

----------------------------------------------------------------------------
(* formatVietnameseText, postProcessVietnameseText                         *)

formatVietnameseText(text, language) ==
    IF ~truthy(text) THEN returned(<<>>)
    ELSE IF text.kind # "string"
         THEN thrown(<<"text.trim is not a function">>)
         ELSE IF language = "vietnamese"
              THEN returned(capitalizeFirst(fixSentenceEnding(collapseWhitespace(trim(text.s)))))
              ELSE returned(capitalizeFirst(fixSentenceEnding(collapseWhitespace(trim(text.s)))))

\* variant: both languages only trim
postProcessTrimOnly(text, language) == trim(text)

\* variant: both languages are normalised as Vietnamese
postProcessAlwaysVietnamese(text, language) ==
    trim(collapseWhitespace(spaceAfterPunct(removeSpaceBeforePunct(text))))

postProcessVietnameseText(text, language) ==
    IF language = "vietnamese"
    THEN trim(collapseWhitespace(spaceAfterPunct(removeSpaceBeforePunct(text))))
    ELSE trim(text)

----------------------------------------------------------------------------
(* mergeTemplate                                                           *)

MISSING_VIETNAMESE ==
    <<"[", "C", "h", "U+01B0", "a", " ", "c", "U+00F3", " ", "t", "h", "U+00F4",
      "n", "g", " ", "t", "i", "n", ":", " ">>

MISSING_ENGLISH == <<"[", "M", "i", "s", "s", "i", "n", "g", ":", " ">>

\* the callback of the double-brace replace
vietnameseReplacer(fieldName, consultationData, language) ==
    LET value == getField(consultationData, trim(fieldName))
    IN  IF truthy(value)
        THEN formatVietnameseText(value, language)
        ELSE returned(MISSING_VIETNAMESE \o fieldName \o <<"]">>)

\* the callback of the single-brace replace
placeholderReplacer(fieldName, consultationData, language) ==
    LET value == getField(consultationData, trim(fieldName))
    IN  IF truthy(value)
        THEN formatVietnameseText(value, language)
        ELSE returned(MISSING_ENGLISH \o fieldName \o <<"]">>)

replacer(pattern, fieldName, consultationData, language) ==
    IF pattern = VIETNAMESE_PLACEHOLDER_PATTERN
    THEN vietnameseReplacer(fieldName, consultationData, language)
    ELSE placeholderReplacer(fieldName, consultationData, language)

\* the text between and around the matches, with each match replaced
RECURSIVE spliceFrom(_, _, _, _, _)
spliceFrom(s, ms, repls, k, pos) ==
    IF k > Len(ms) THEN SubSeq(s, pos, Len(s))
    ELSE SubSeq(s, pos, ms[k].index - 1) \o repls[k].value
         \o spliceFrom(s, ms, repls, k + 1, ms[k].lastIndex + 1)

\* the callback applied to every match, in order
replacements(pattern, ms, consultationData, language) ==
    [k \in 1..Len(ms) |-> replacer(pattern, ms[k].group, consultationData, language)]

\* failed: the matches whose callback threw; the first exception propagates
spliceOrThrow(s, ms, repls, failed) ==
    IF failed # {} THEN repls[Min(failed)]
    ELSE returned(spliceFrom(s, ms, repls, 1, 1))

replaceMatches(s, ms, repls) ==
    spliceOrThrow(s, ms, repls, {k \in 1..Len(ms) : repls[k].threw})

\* variant: the string replace returns is dropped (result.replace(...) written
\* without the assignment), so the text stays as it was
stringReplaceDiscarded(pattern, s, consultationData, language) ==
    IF \E k \in 1..Len(execAll(pattern, s, 0)) :
           replacements(pattern, execAll(pattern, s, 0), consultationData, language)[k].threw
    THEN thrown(<<"text.trim is not a function">>)
    ELSE returned(s)

\* String.prototype.replace(pattern, callback) for a global pattern: lastIndex
\* is set to 0, all matches are collected (which leaves lastIndex 0), then the
\* callback runs on each match in order
replaceIn(pattern, s, ms, consultationData, language) ==
    replaceMatches(s, ms, replacements(pattern, ms, consultationData, language))

stringReplace(pattern, s, consultationData, language) ==
    replaceIn(pattern, s, execAll(pattern, s, 0), consultationData, language)

\* result: the outcome; reached: how many of the two replace calls started
\* second: the outcome of the single-brace replace
mergeFinish(second, language) ==
    IF second.threw THEN [result |-> second, reached |-> 2]
    ELSE [result |-> returned(postProcessVietnameseText(second.value, language)),
          reached |-> 2]

\* variant: no single-brace replace
mergeSecondSkipped(first, consultationData, language) ==
    IF first.threw THEN [result |-> first, reached |-> 1]
    ELSE [result |-> returned(postProcessVietnameseText(first.value, language)),
          reached |-> 2]

\* first: the outcome of the double-brace replace
mergeSecond(first, consultationData, language) ==
    IF first.threw THEN [result |-> first, reached |-> 1]
    ELSE mergeFinish(stringReplace(PLACEHOLDER_PATTERN, first.value,
                                   consultationData, language),
                     language)

\* variant: the single-brace replace runs before the double-brace replace
mergeTemplateSingleFirst(template, consultationData, language) ==
    LET first == stringReplace(PLACEHOLDER_PATTERN, template, consultationData, language)
        second == stringReplace(VIETNAMESE_PLACEHOLDER_PATTERN, first.value,
                                consultationData, language)
    IN  IF first.threw THEN [result |-> first, reached |-> 1]
        ELSE IF second.threw THEN [result |-> second, reached |-> 2]
        ELSE [result |-> returned(postProcessVietnameseText(second.value, language)),
              reached |-> 2]

mergeTemplate(template, consultationData, language) ==
    mergeSecond(stringReplace(VIETNAMESE_PLACEHOLDER_PATTERN, template,
                              consultationData, language),
                consultationData, language)

----------------------------------------------------------------------------
(* extractPlaceholders                                                     *)

\* Set.prototype.add on an insertion-ordered set
setAdd(placeholders, name) ==
    IF \E i \in 1..Len(placeholders) : placeholders[i] = name
    THEN placeholders
    ELSE Append(placeholders, name)

RECURSIVE addGroups(_, _, _)
addGroups(placeholders, ms, k) ==
    IF k > Len(ms) THEN placeholders
    ELSE addGroups(setAdd(placeholders, trim(ms[k].group)), ms, k + 1)

\* variant: the first loop is an if, one exec and no more
extractPlaceholdersFirstDoubleOnly(template, vnLast) ==
    LET match == exec(VIETNAMESE_PLACEHOLDER_PATTERN, template, vnLast)
        ph == execAll(PLACEHOLDER_PATTERN, template, 0)
    IN  [placeholders |->
             addGroups(IF match.found THEN <<trim(match.group)>> ELSE <<>>, ph, 1),
         vnLastIndex |-> match.lastIndex,
         phLastIndex |-> 0]

\* variant: the second loop is an if, one exec and no more
extractPlaceholdersFirstSingleOnly(template, vnLast) ==
    LET vn == execAll(VIETNAMESE_PLACEHOLDER_PATTERN, template, vnLast)
        match == exec(PLACEHOLDER_PATTERN, template, 0)
    IN  [placeholders |->
             IF match.found
             THEN setAdd(addGroups(<<>>, vn, 1), trim(match.group))
             ELSE addGroups(<<>>, vn, 1),
         vnLastIndex |-> 0,
         phLastIndex |-> match.lastIndex]

\* The double-brace loop starts at the pattern's current lastIndex; each loop
\* ends on the null that resets lastIndex to 0.
extractPlaceholders(template, vnLast) ==
    LET vn == execAll(VIETNAMESE_PLACEHOLDER_PATTERN, template, vnLast)
        ph == execAll(PLACEHOLDER_PATTERN, template, 0)
    IN  [placeholders |-> addGroups(addGroups(<<>>, vn, 1), ph, 1),
         vnLastIndex |-> 0,
         phLastIndex |-> 0]

----------------------------------------------------------------------------
(* render, generatePreview, validateTemplate, renderAll                    *)
(* Each returns its outcome together with the lastIndex it leaves in the    *)
(* two shared patterns.                                                     *)

\* templates[consultationType]
getTemplate(templates, consultationType) ==
    IF consultationType \in DOMAIN templates
    THEN [kind |-> "string", s |-> templates[consultationType]]
    ELSE [kind |-> "undefined"]

\* variant: templateUsed is given the rendered content
renderedConsultationContentAsTemplate(context, template, content, extracted, now) ==
    [outcome |-> returned(
         [content |-> content,
          templateUsed |-> content,
          placeholders |-> extracted.placeholders,
          metadata |-> [productId |-> context.productId,
                        consultationType |-> context.consultationType,
                        renderTime |-> now,
                        language |-> context.language]]),
     vnLastIndex |-> extracted.vnLastIndex,
     phLastIndex |-> extracted.phLastIndex]

\* the context object once render is over: render reads consultationType,
\* templates, consultationData, language and productId and assigns to none
contextAfterRender(context) == context

\* the RenderedConsultation render returns
renderedConsultation(context, template, content, extracted, now) ==
    [outcome |-> returned(
         [content |-> content,
          templateUsed |-> template,
          placeholders |-> extracted.placeholders,
          metadata |-> [productId |-> context.productId,
                        consultationType |-> context.consultationType,
                        renderTime |-> now,
                        language |-> context.language]]),
     vnLastIndex |-> extracted.vnLastIndex,
     phLastIndex |-> extracted.phLastIndex]

\* merged: what mergeTemplate did on the template; its replace calls have left
\* lastIndex 0 in the double-brace pattern, where extractPlaceholders starts
renderMerged(context, template, merged, phLast, now) ==
    IF merged.result.threw
    THEN [outcome |-> merged.result,
          vnLastIndex |-> 0,
          phLastIndex |-> IF merged.reached = 2 THEN 0 ELSE phLast]
    ELSE renderedConsultation(context, template, merged.result.value,
                              extractPlaceholders(template, 0), now)

\* variant: the product name of the context is offered as the field productName
renderTemplateWithProductName(context, template, vnLast, phLast, now) ==
    IF ~truthy(template)
    THEN [outcome |-> thrown(<<"Template not found for consultation type: ",
                               context.consultationType>>),
          vnLastIndex |-> vnLast,
          phLastIndex |-> phLast]
    ELSE renderMerged(
             context, template.s,
             mergeTemplate(
                 template.s,
                 [k \in DOMAIN context.consultationData
                            \cup {<<"p", "r", "o", "d", "u", "c", "t", "N", "a", "m", "e">>} |->
                     IF k \in DOMAIN context.consultationData
                     THEN context.consultationData[k]
                     ELSE <<context.productName>>],
                 context.language),
             phLast, now)

\* template: the value of templates[consultationType]
renderTemplate(context, template, vnLast, phLast, now) ==
    IF ~truthy(template)
    THEN [outcome |-> thrown(<<"Template not found for consultation type: ",
                               context.consultationType>>),
          vnLastIndex |-> vnLast,
          phLastIndex |-> phLast]
    ELSE renderMerged(context, template.s,
                      mergeTemplate(template.s, context.consultationData, context.language),
                      phLast, now)

render(context, vnLast, phLast, now) ==
    renderTemplate(context, getTemplate(context.templates, context.consultationType),
                   vnLast, phLast, now)

PREVIEW_ERROR_PREFIX == "<U+26A0><U+FE0F> L<U+1ED7>i template: "

\* error instanceof Error ? error.message : 'Unknown error'
errorMessage(error) == IF error.isError THEN error.message ELSE <<"Unknown error">>

\* variant: no try/catch around render
previewNoCatch(r) ==
    [outcome |-> IF r.outcome.threw THEN r.outcome
                 ELSE returned(r.outcome.value.content),
     vnLastIndex |-> r.vnLastIndex,
     phLastIndex |-> r.phLastIndex]

\* r: what the call of render did
preview(r) ==
    [outcome |-> IF r.outcome.threw
                 THEN returned(<<PREVIEW_ERROR_PREFIX>> \o errorMessage(r.outcome.error))
                 ELSE returned(r.outcome.value.content),
     vnLastIndex |-> r.vnLastIndex,
     phLastIndex |-> r.phLastIndex]

generatePreview(context, vnLast, phLast, now) ==
    preview(render(context, vnLast, phLast, now))

ERROR_UNMATCHED_BRACES ==
    "Template c<U+00F3> c<U+1EB7>p ngo<U+1EB7>c nh<U+1ECD>n kh<U+00F4>ng kh<U+1EDB>p"

ERROR_EMPTY_TEMPLATE ==
    "Template kh<U+00F4>ng <U+0111><U+01B0><U+1EE3>c <U+0111><U+1EC3> tr<U+1ED1>ng"

\* `Tr<U+01B0><U+1EDD>ng '${placeholder}' kh<U+00F4>ng c<U+00F3> trong ...`
missingFieldWarning(placeholder) ==
    <<"Tr<U+01B0><U+1EDD>ng '">> \o placeholder \o
    <<"' kh<U+00F4>ng c<U+00F3> trong d<U+1EEF> li<U+1EC7>u consultation">>

\* availableFields.includes(placeholder)
arrayIncludes(array, x) == \E i \in 1..Len(array) : array[i] = x

\* variant: only an unclosed "{" is reported (> written for !==)
unmatchedBraceErrorsOnlyUnclosed(openBraces, closeBraces) ==
    IF openBraces > closeBraces THEN <<ERROR_UNMATCHED_BRACES>> ELSE <<>>

\* if (openBraces !== closeBraces) errors.push(...)
unmatchedBraceErrors(openBraces, closeBraces) ==
    IF openBraces # closeBraces THEN <<ERROR_UNMATCHED_BRACES>> ELSE <<>>

RECURSIVE missingFieldWarnings(_, _, _)
missingFieldWarnings(placeholders, availableFields, k) ==
    IF k > Len(placeholders) THEN <<>>
    ELSE (IF arrayIncludes(availableFields, placeholders[k])
          THEN <<>>
          ELSE <<missingFieldWarning(placeholders[k])>>)
         \o missingFieldWarnings(placeholders, availableFields, k + 1)

\* variant: the emptiness test without the trim (!template for !template.trim())
templateErrorsUntrimmed(template) ==
    unmatchedBraceErrors(countChar(template, "{"), countChar(template, "}"))
    \o (IF template = <<>> THEN <<ERROR_EMPTY_TEMPLATE>> ELSE <<>>)

isNotBrace(c) == c \notin {"{", "}"}

\* variant: the emptiness test is made on the template without its braces
templateErrorsBracesStripped(template) ==
    unmatchedBraceErrors(countChar(template, "{"), countChar(template, "}"))
    \o (IF trim(SelectSeq(template, isNotBrace)) = <<>>
        THEN <<ERROR_EMPTY_TEMPLATE>>
        ELSE <<>>)

\* variant: a "}" that closes nothing is an unmatched brace too
templateErrorsPairing(template) ==
    (IF \/ countChar(template, "{") # countChar(template, "}")
        \/ \E i \in 1..Len(template) :
               countChar(SubSeq(template, 1, i), "}") > countChar(SubSeq(template, 1, i), "{")
     THEN <<ERROR_UNMATCHED_BRACES>>
     ELSE <<>>)
    \o (IF trim(template) = <<>> THEN <<ERROR_EMPTY_TEMPLATE>> ELSE <<>>)

\* errors in the order the checks push them
templateErrors(template) ==
    unmatchedBraceErrors(countChar(template, "{"), countChar(template, "}"))
    \o (IF trim(template) = <<>> THEN <<ERROR_EMPTY_TEMPLATE>> ELSE <<>>)

\* variant: a warning invalidates the template too
validationResultWarningsCount(errors, warnings, extracted) ==
    [outcome |-> returned(
         [isValid |-> Len(errors) = 0 /\ Len(warnings) = 0,
          errors |-> errors,
          warnings |-> warnings,
          placeholders |-> extracted.placeholders]),
     vnLastIndex |-> extracted.vnLastIndex,
     phLastIndex |-> extracted.phLastIndex]

validationResult(errors, warnings, extracted) ==
    [outcome |-> returned(
         [isValid |-> Len(errors) = 0,
          errors |-> errors,
          warnings |-> warnings,
          placeholders |-> extracted.placeholders]),
     vnLastIndex |-> extracted.vnLastIndex,
     phLastIndex |-> extracted.phLastIndex]

\* extracted: what extractPlaceholders did on the template
validateExtracted(template, availableFields, extracted) ==
    validationResult(templateErrors(template),
                     missingFieldWarnings(extracted.placeholders, availableFields, 1),
                     extracted)

validateTemplate(template, availableFields, vnLast) ==
    validateExtracted(template, availableFields, extractPlaceholders(template, vnLast))

RENDER_ALL_ERROR_PREFIX ==
    "L<U+1ED7>i t<U+1EA1>o n<U+1ED9>i dung t<U+01B0> v<U+1EA5>n: "

\* results[type] = entry
setEntry(results, type, entry) ==
    [t \in DOMAIN results \cup {type} |-> IF t = type THEN entry ELSE results[t]]

\* { ...baseContext, consultationType: type }
withType(baseContext, type) ==
    [productId |-> baseContext.productId,
     productName |-> baseContext.productName,
     consultationType |-> type,
     consultationData |-> baseContext.consultationData,
     templates |-> baseContext.templates,
     language |-> baseContext.language]

\* the RenderedConsultation stored for a type: render's, or the one the catch builds
entryFor(baseContext, type, outcome, now) ==
    IF outcome.threw
    THEN [content |-> <<RENDER_ALL_ERROR_PREFIX>> \o errorMessage(outcome.error),
          templateUsed |-> <<>>,
          placeholders |-> <<>>,
          metadata |-> [productId |-> baseContext.productId,
                        consultationType |-> type,
                        renderTime |-> now,
                        language |-> baseContext.language]]
    ELSE outcome.value

\* the forEach of renderAll from the k-th type on; times[k] is the clock at
\* the k-th iteration; r is what render did for the k-th type
RECURSIVE renderAllFrom(_, _, _, _, _, _, _)
renderAllStep(baseContext, consultationTypes, times, k, results, r) ==
    renderAllFrom(baseContext, consultationTypes, times, k + 1,
                  setEntry(results, consultationTypes[k],
                           entryFor(baseContext, consultationTypes[k], r.outcome, times[k])),
                  r.vnLastIndex, r.phLastIndex)

renderAllFrom(baseContext, consultationTypes, times, k, results, vnLast, phLast) ==
    IF k > Len(consultationTypes)
    THEN [outcome |-> returned(results), vnLastIndex |-> vnLast, phLastIndex |-> phLast]
    ELSE renderAllStep(baseContext, consultationTypes, times, k, results,
                       render(withType(baseContext, consultationTypes[k]),
                              vnLast, phLast, times[k]))

\* variant: no try/catch inside the forEach, the first failing type ends the batch
renderAllNoCatch(baseContext, consultationTypes, vnLast, phLast, times) ==
    IF \E k \in 1..Len(consultationTypes) :
           render(withType(baseContext, consultationTypes[k]), vnLast, phLast, times[k]).outcome.threw
    THEN [outcome |-> thrown(<<"Template not found for consultation type: ">>),
          vnLastIndex |-> 0, phLastIndex |-> 0]
    ELSE renderAllFrom(baseContext, consultationTypes, times, 1, << >>, vnLast, phLast)

renderAll(baseContext, consultationTypes, vnLast, phLast, times) ==
    renderAllFrom(baseContext, consultationTypes, times, 1, << >>, vnLast, phLast)

----------------------------------------------------------------------------
(* searchConsultationContent, generateStats                                *)

\* vietnameseMatch(text, query) of ./vietnameseSearch: a boolean predicate of
\* the text and the query.  matches is the relation it decides.
vietnameseMatch(text, query, matches) == <<text, query>> \in matches

\* variant: only the content is matched
searchAcceptsContentOnly(consultation, query, matches) ==
    vietnameseMatch(consultation.content, query, matches)

\* the callback of the filter; the consultation type is a one-atom text
searchAccepts(consultation, query, matches) ==
    \/ vietnameseMatch(consultation.content, query, matches)
    \/ vietnameseMatch(<<consultation.metadata.consultationType>>, query, matches)

\* Array.prototype.filter from the k-th entry on
RECURSIVE searchFilterFrom(_, _, _, _)
searchFilterFrom(consultations, query, matches, k) ==
    IF k > Len(consultations) THEN <<>>
    ELSE (IF searchAccepts(consultations[k], query, matches)
          THEN <<consultations[k]>>
          ELSE <<>>)
         \o searchFilterFrom(consultations, query, matches, k + 1)

searchConsultationContent(consultations, query, matches) ==
    IF trim(query) = <<>>
    THEN returned(consultations)
    ELSE returned(searchFilterFrom(consultations, query, matches, 1))

\* Date | null
NULL == [kind |-> "null"]
date(time) == [kind |-> "date", time |-> time]

\* counts[key] = (counts[key] || 0) + 1
increment(counts, key) ==
    [k \in DOMAIN counts \cup {key} |->
        IF k = key
        THEN (IF key \in DOMAIN counts THEN counts[key] ELSE 0) + 1
        ELSE counts[k]]

\* variant: the time of the entry at hand always replaces the tracked one
laterOfLast(lastRenderTime, renderTime) == date(renderTime)

\* if (!lastRenderTime || renderTime > lastRenderTime) lastRenderTime = renderTime
laterOf(lastRenderTime, renderTime) ==
    IF lastRenderTime.kind = "null" \/ renderTime > lastRenderTime.time
    THEN date(renderTime)
    ELSE lastRenderTime

\* Math.round(numerator / denominator) for a non-negative quotient:
\* the nearest integer, a half rounded up
mathRound(numerator, denominator) ==
    (2 * numerator + denominator) \div (2 * denominator)

\* the forEach of generateStats from the k-th entry on, then the return
RECURSIVE generateStatsFrom(_, _, _, _, _, _)
generateStatsFrom(consultations, k, templateUsage, languageDistribution, totalContentLength, lastRenderTime) ==
    IF k > Len(consultations)
    THEN returned(
             [totalConsultations |-> Len(consultations),
              templateUsage |-> templateUsage,
              averageContentLength |->
                  IF Len(consultations) > 0
                  THEN mathRound(totalContentLength, Len(consultations))
                  ELSE 0,
              languageDistribution |-> languageDistribution,
              lastRenderTime |-> lastRenderTime])
    ELSE generateStatsFrom(
             consultations, k + 1,
             increment(templateUsage, consultations[k].metadata.consultationType),
             increment(languageDistribution, consultations[k].metadata.language),
             totalContentLength + Len(consultations[k].content),
             laterOf(lastRenderTime, consultations[k].metadata.renderTime))

generateStats(consultations) ==
    generateStatsFrom(consultations, 1, << >>, << >>, 0, NULL)

----------------------------------------------------------------------------
(* Inputs                                                                  *)

\* longest template of the exhaustive enumeration
MaxLen == 3

\* largest clock reading
MaxTime == 1

\* characters of the enumerated templates
Alphabet == {"{", "}", "a", " "}

EnumeratedTemplates == UNION {[1..n -> Alphabet] : n \in 0..MaxLen}

\* "Xin ch<U+00E0>o {{ten}}"
T_HELLO == <<"X", "i", "n", " ", "c", "h", "U+00E0", "o", " ", "{", "{", "t", "e", "n", "}", "}">>

\* "{{ten} "
T_UNMATCHED == <<"{", "{", "t", "e", "n", "}", " ">>

\* "C<U+00E1>ch d<U+00F9>ng: {{c<U+00E1>ch_thoa}}."
T_USAGE ==
    <<"C", "U+00E1", "c", "h", " ", "d", "U+00F9", "n", "g", ":", " ", "{", "{",
      "c", "U+00E1", "c", "h", "_", "t", "h", "o", "a", "}", "}", ".">>

F_TEN == <<"t", "e", "n">>
F_CACH_THOA == <<"c", "U+00E1", "c", "h", "_", "t", "h", "o", "a">>

F_PRODUCT_NAME == <<"p", "r", "o", "d", "u", "c", "t", "N", "a", "m", "e">>

\* "{productName}", the placeholder of every default template
T_PRODUCT == <<"{">> \o F_PRODUCT_NAME \o <<"}">>

\* "thoa <U+0111><U+1EC1>u"
V_THOA_DEU == <<"t", "h", "o", "a", " ", "U+0111", "U+1EC1", "u">>

NamedTemplates ==
    {T_HELLO, T_UNMATCHED, T_USAGE, T_PRODUCT,
     <<"{", "{", "a", "}", "}">>,
     <<"{", "{", " ", "t", "e", "n", " ", "}", "}">>,
     <<"{", "{", "a", " ", ".", "b", "}", "}">>,
     <<"{", "{", "a", "}", "}", "{", "{", "a", "}", "}">>,
     <<"{", "{", "a", "}", "}", " ", "{", "a", "}", ".">>,
     <<"{", "{", "{", "a", "}", "}", "b", "}">>,
     <<"a", " ", ".", "B", "\n", "\n", "{", "a", "}", " ">>,
     <<"{", "a", "}", ".">>,
     <<"{", "v", "a", "l", "u", "e", "O", "f", "}">>}

Templates == EnumeratedTemplates \cup NamedTemplates

Values ==
    {<<>>, <<" ">>, <<"b">>, <<"b", " ", ".">>, <<"{", "g", "}">>, <<"}", "}">>,
     <<"U+0111", "a">>, <<"b", ".">>}

ConsultationDatas ==
    {<< >>}
    \cup {[k \in {<<"a">>} |-> v] : v \in Values}
    \cup {[k \in {F_TEN} |-> <<"b">>],
          [k \in {F_CACH_THOA} |-> V_THOA_DEU],
          [k \in {F_PRODUCT_NAME} |-> <<"b">>],
          [k \in {<<"a">>, <<"g">>} |-> IF k = <<"a">> THEN <<"{", "g", "}">> ELSE <<"b">>]}

Languages == {"vietnamese", "english"}

ConsultationTypes == {"usage_guide_template", "safety_template", "recipe_template"}

Times == 0..MaxTime

\* contexts whose template set holds one template, the one asked for
SingleTemplateContexts ==
    {[productId |-> "p1", productName |-> "n1",
      consultationType |-> "usage_guide_template",
      consultationData |-> d,
      templates |-> [t \in {"usage_guide_template"} |-> tpl],
      language |-> l] : tpl \in Templates, d \in ConsultationDatas, l \in Languages}

\* template sets over several types, some of them without a template
SmallTemplateSets ==
    {<< >>,
     [t \in {"safety_template"} |-> <<"{", "a", "}">>],
     [t \in {"usage_guide_template", "recipe_template"} |->
         IF t = "usage_guide_template" THEN <<"{", "{", "a", "}", "}">> ELSE <<"{", "a", "}", ".">>],
     [t \in ConsultationTypes |->
         IF t = "usage_guide_template" THEN <<"{", "{", "a", "}", "}">>
         ELSE IF t = "safety_template" THEN <<>>
         ELSE <<"{", "v", "a", "l", "u", "e", "O", "f", "}">>]}

SmallDatas == {<< >>, [k \in {<<"a">>} |-> <<"b">>]}

MultiTemplateContexts ==
    {[productId |-> "p1", productName |-> "n1",
      consultationType |-> ty,
      consultationData |-> d,
      templates |-> ts,
      language |-> l] :
        ty \in ConsultationTypes, d \in SmallDatas, ts \in SmallTemplateSets, l \in Languages}

Contexts == SingleTemplateContexts \cup MultiTemplateContexts

BaseContexts ==
    {[productId |-> "p1", productName |-> "n1",
      consultationData |-> d, templates |-> ts, language |-> l] :
        d \in SmallDatas, ts \in SmallTemplateSets, l \in Languages}

\* longest list of consultation types given to renderAll
MaxTypes == 3

\* lists of consultation types, with repetitions
TypeLists == UNION {[1..n -> ConsultationTypes] : n \in 0..MaxTypes}

\* non-decreasing clock readings, one per list entry
TimeLists(n) == {ts \in [1..n -> Times] : \A i \in 1..n, j \in 1..n : i <= j => ts[i] <= ts[j]}

AvailableFieldLists ==
    {<<>>, <<<<"a">>>>, <<F_TEN, <<"a">>, <<"{", "a">>>>}

\* rendered consultations as render returns them
SampleConsultations ==
    {[content |-> <<"B">>,
      templateUsed |-> <<"{", "a", "}">>,
      placeholders |-> <<<<"a">>>>,
      metadata |-> [productId |-> "p1", consultationType |-> "usage_guide_template",
                    renderTime |-> 1, language |-> "vietnamese"]],
     [content |-> <<"a", "B">>,
      templateUsed |-> <<"a", "{", "a", "}">>,
      placeholders |-> <<<<"a">>>>,
      metadata |-> [productId |-> "p1", consultationType |-> "safety_template",
                    renderTime |-> 0, language |-> "english"]],
     [content |-> <<"a">>,
      templateUsed |-> <<"a">>,
      placeholders |-> <<>>,
      metadata |-> [productId |-> "p1", consultationType |-> "usage_guide_template",
                    renderTime |-> 0, language |-> "english"]]}

\* longest list given to searchConsultationContent and generateStats
MaxResults == 3

ConsultationLists == UNION {[1..n -> SampleConsultations] : n \in 0..MaxResults}

Queries == {<<>>, <<" ">>, <<"b">>}

\* the texts vietnameseMatch is asked about
SearchTexts ==
    {c.content : c \in SampleConsultations}
    \cup {<<c.metadata.consultationType>> : c \in SampleConsultations}

\* what vietnameseMatch may decide for a query; it is not asked for a blank one
MatchRelations(query) ==
    IF trim(query) = <<>> THEN {{}} ELSE SUBSET (SearchTexts \X {query})

----------------------------------------------------------------------------
(* The state machine: one action per public operation.  The caller makes   *)
(* one call at a time (the code is synchronous) and takes its result        *)
(* before the next call; the two lastIndex fields outlive the calls.        *)

Idle == call.op = "none"

Init ==
    /\ vnLastIndex = 0
    /\ phLastIndex = 0
    /\ call = [op |-> "none"]
    /\ ret = returned(<<>>)

Render ==
    /\ Idle
    /\ \E context \in Contexts, now \in Times :
           \E r \in {render(context, vnLastIndex, phLastIndex, now)} :
               /\ call' = [op |-> "render", context |-> context,
                           contextAfter |-> contextAfterRender(context)]
               /\ ret' = r.outcome
               /\ vnLastIndex' = r.vnLastIndex
               /\ phLastIndex' = r.phLastIndex

GeneratePreview ==
    /\ Idle
    /\ \E context \in Contexts, now \in Times :
           \E r \in {generatePreview(context, vnLastIndex, phLastIndex, now)} :
               /\ call' = [op |-> "generatePreview", context |-> context]
               /\ ret' = r.outcome
               /\ vnLastIndex' = r.vnLastIndex
               /\ phLastIndex' = r.phLastIndex

ValidateTemplate ==
    /\ Idle
    /\ \E template \in Templates, availableFields \in AvailableFieldLists :
           \E r \in {validateTemplate(template, availableFields, vnLastIndex)} :
               /\ call' = [op |-> "validateTemplate", template |-> template,
                           availableFields |-> availableFields]
               /\ ret' = r.outcome
               /\ vnLastIndex' = r.vnLastIndex
               /\ phLastIndex' = r.phLastIndex

RenderAll ==
    /\ Idle
    /\ \E baseContext \in BaseContexts, consultationTypes \in TypeLists :
           \E times \in TimeLists(Len(consultationTypes)) :
               \E r \in {renderAll(baseContext, consultationTypes,
                                   vnLastIndex, phLastIndex, times)} :
                   /\ call' = [op |-> "renderAll", baseContext |-> baseContext,
                               consultationTypes |-> consultationTypes]
                   /\ ret' = r.outcome
                   /\ vnLastIndex' = r.vnLastIndex
                   /\ phLastIndex' = r.phLastIndex

SearchConsultationContent ==
    /\ Idle
    /\ \E consultations \in ConsultationLists, query \in Queries :
           \E matches \in MatchRelations(query) :
               /\ call' = [op |-> "searchConsultationContent",
                           consultations |-> consultations,
                           query |-> query,
                           matches |-> matches]
               /\ ret' = searchConsultationContent(consultations, query, matches)
               /\ UNCHANGED <<vnLastIndex, phLastIndex>>

GenerateStats ==
    /\ Idle
    /\ \E consultations \in ConsultationLists :
           /\ call' = [op |-> "generateStats", consultations |-> consultations]
           /\ ret' = generateStats(consultations)
           /\ UNCHANGED <<vnLastIndex, phLastIndex>>

\* the caller has taken the result
Return ==
    /\ ~Idle
    /\ call' = [op |-> "none"]
    /\ ret' = returned(<<>>)
    /\ UNCHANGED <<vnLastIndex, phLastIndex>>

Next ==
    \/ Render
    \/ GeneratePreview
    \/ ValidateTemplate
    \/ RenderAll
    \/ SearchConsultationContent
    \/ GenerateStats
    \/ Return

Spec == Init /\ [][Next]_vars

----------------------------------------------------------------------------
(* Calls interleaved step by step.  Several calls of render and            *)
(* validateTemplate are in progress at once, each at its own position; a    *)
(* step is one use of a shared pattern: a replace, an exec, or the reset of *)
(* lastIndex.  The two lastIndex fields are the ones all calls share.       *)
(* call holds the calls in progress, ret what each has returned so far.     *)

\* number of calls in progress at once
NumCalls == 2

Procs == 1..NumCalls

InterleavedTemplates ==
    {<<"{", "{", "a", "}", "}">>,
     <<"{", "{", "a", "}", "}", " ", "{", "a", "}", ".">>,
     <<"a">>}

InterleavedCalls ==
    {[op |-> "render",
      context |-> [productId |-> "p1", productName |-> "n1",
                   consultationType |-> "usage_guide_template",
                   consultationData |-> [k \in {<<"a">>} |-> <<"b">>],
                   templates |-> [t \in {"usage_guide_template"} |-> tpl],
                   language |-> "vietnamese"]] : tpl \in InterleavedTemplates}
    \cup
    {[op |-> "validateTemplate", template |-> tpl, availableFields |-> <<>>] :
        tpl \in InterleavedTemplates}

\* the template a call in progress works on
templateOf(c) ==
    IF c.op = "render" THEN c.context.templates[c.context.consultationType] ELSE c.template

\* what a call returns once extractPlaceholders has returned placeholders
finished(c, merged, placeholders) ==
    IF c.op = "render"
    THEN renderedConsultation(c.context, templateOf(c), merged,
                              [placeholders |-> placeholders,
                               vnLastIndex |-> 0, phLastIndex |-> 0], 0).outcome
    ELSE validateExtracted(templateOf(c), c.availableFields,
                           [placeholders |-> placeholders,
                            vnLastIndex |-> 0, phLastIndex |-> 0]).outcome

InterleavedInit ==
    /\ vnLastIndex = 0
    /\ phLastIndex = 0
    /\ \E calls \in [Procs -> InterleavedCalls] :
           call = [op |-> "interleaved",
                   calls |-> calls,
                   pc |-> [p \in Procs |->
                              IF calls[p].op = "render" THEN "replaceDouble" ELSE "execDouble"],
                   merged |-> [p \in Procs |-> <<>>],
                   placeholders |-> [p \in Procs |-> <<>>]]
    /\ ret = [p \in Procs |-> [done |-> FALSE]]

\* mergeTemplate: result.replace(VIETNAMESE_PLACEHOLDER_PATTERN, ...)
ReplaceDouble(p) ==
    /\ call.op = "interleaved"
    /\ call.pc[p] = "replaceDouble"
    /\ \E r \in {stringReplace(VIETNAMESE_PLACEHOLDER_PATTERN, templateOf(call.calls[p]),
                                call.calls[p].context.consultationData,
                                call.calls[p].context.language)} :
           IF r.threw
           THEN /\ call' = [call EXCEPT !.pc[p] = "done"]
                /\ ret' = [ret EXCEPT ![p] = [done |-> TRUE, outcome |-> r]]
           ELSE /\ call' = [call EXCEPT !.pc[p] = "replaceSingle", !.merged[p] = r.value]
                /\ ret' = ret
    /\ vnLastIndex' = 0
    /\ UNCHANGED phLastIndex

\* mergeTemplate: result.replace(PLACEHOLDER_PATTERN, ...), then the
\* post-processing, which uses no shared pattern
ReplaceSingle(p) ==
    /\ call.op = "interleaved"
    /\ call.pc[p] = "replaceSingle"
    /\ \E r \in {stringReplace(PLACEHOLDER_PATTERN, call.merged[p],
                                call.calls[p].context.consultationData,
                                call.calls[p].context.language)} :
           IF r.threw
           THEN /\ call' = [call EXCEPT !.pc[p] = "done"]
                /\ ret' = [ret EXCEPT ![p] = [done |-> TRUE, outcome |-> r]]
           ELSE /\ call' = [call EXCEPT
                               !.pc[p] = "execDouble",
                               !.merged[p] = postProcessVietnameseText(
                                                 r.value, call.calls[p].context.language)]
                /\ ret' = ret
    /\ phLastIndex' = 0
    /\ UNCHANGED vnLastIndex

\* extractPlaceholders: one turn of the first while loop
ExecDouble(p) ==
    /\ call.op = "interleaved"
    /\ call.pc[p] = "execDouble"
    /\ \E match \in {exec(VIETNAMESE_PLACEHOLDER_PATTERN, templateOf(call.calls[p]),
                          vnLastIndex)} :
           /\ vnLastIndex' = match.lastIndex
           /\ call' = IF match.found
                      THEN [call EXCEPT !.placeholders[p] = setAdd(@, trim(match.group))]
                      ELSE [call EXCEPT !.pc[p] = "resetSingle"]
    /\ UNCHANGED <<phLastIndex, ret>>

\* extractPlaceholders: this.PLACEHOLDER_PATTERN.lastIndex = 0
ResetSingle(p) ==
    /\ call.op = "interleaved"
    /\ call.pc[p] = "resetSingle"
    /\ phLastIndex' = 0
    /\ call' = [call EXCEPT !.pc[p] = "execSingle"]
    /\ UNCHANGED <<vnLastIndex, ret>>

\* extractPlaceholders: one turn of the second while loop; on null the
\* call goes on to its return
ExecSingle(p) ==
    /\ call.op = "interleaved"
    /\ call.pc[p] = "execSingle"
    /\ \E match \in {exec(PLACEHOLDER_PATTERN, templateOf(call.calls[p]), phLastIndex)} :
           /\ phLastIndex' = match.lastIndex
           /\ IF match.found
              THEN /\ call' = [call EXCEPT !.placeholders[p] = setAdd(@, trim(match.group))]
                   /\ ret' = ret
              ELSE /\ call' = [call EXCEPT !.pc[p] = "done"]
                   /\ ret' = [ret EXCEPT ![p] =
                                  [done |-> TRUE,
                                   outcome |-> finished(call.calls[p], call.merged[p],
                                                        call.placeholders[p])]]
    /\ UNCHANGED vnLastIndex

InterleavedNext ==
    \E p \in Procs :
        \/ ReplaceDouble(p)
        \/ ReplaceSingle(p)
        \/ ExecDouble(p)
        \/ ResetSingle(p)
        \/ ExecSingle(p)

SpecInterleaved == InterleavedInit /\ [][InterleavedNext]_vars

----------------------------------------------------------------------------
(* postProcessVietnameseText on its own: a text is post-processed, and the  *)
(* result post-processed again.  call holds the text and the number of      *)
(* applications so far, ret the text after them.                            *)

\* longest text
MaxText == 4

\* number of applications of the post-processing
MaxApplications == 2

TextAlphabet == {" ", "\n", ".", ",", "a", "B"}

Texts == UNION {[1..n -> TextAlphabet] : n \in 0..MaxText}

TextInit ==
    /\ vnLastIndex = 0
    /\ phLastIndex = 0
    /\ \E text \in Texts, language \in Languages :
           /\ call = [op |-> "postProcessVietnameseText", text |-> text,
                      language |-> language, applications |-> 0]
           /\ ret = returned(text)

PostProcess ==
    /\ call.op = "postProcessVietnameseText"
    /\ call.applications < MaxApplications
    /\ call' = [call EXCEPT !.applications = @ + 1]
    /\ ret' = returned(postProcessVietnameseText(ret.value, call.language))
    /\ UNCHANGED <<vnLastIndex, phLastIndex>>

TextNext == PostProcess

SpecText == TextInit /\ [][TextNext]_vars

----------------------------------------------------------------------------
(* Vocabulary of the properties                                            *)

Braces == {"{", "}"}

hasBrace(s) == \E i \in 1..Len(s) : s[i] \in Braces

\* the context's template set has an entry for the consultation type
templatePresent(context) == context.consultationType \in DOMAIN context.templates

chosenTemplate(context) == context.templates[context.consultationType]

\* consultationData has a non-empty value for the trimmed field name
resolves(consultationData, fieldName) ==
    /\ trim(fieldName) \in DOMAIN consultationData
    /\ consultationData[trim(fieldName)] # <<>>

\* every brace of the template belongs to a match of the pattern, and no
\* field name of a match holds a brace
wellFormedFor(pattern, template) ==
    LET ms == execAll(pattern, template, 0)
    IN  /\ \A i \in 1..Len(template) :
               template[i] \in Braces =>
                   \E k \in 1..Len(ms) : ms[k].index <= i /\ i <= ms[k].lastIndex
        /\ \A k \in 1..Len(ms) :
               /\ ~hasBrace(ms[k].group)
               /\ ms[k].lastIndex - ms[k].index + 1
                      = Len(pattern.open) + Len(ms[k].group) + Len(pattern.close)

\* the template is text without braces around exactly one placeholder
singlePlaceholder(pattern, template) ==
    /\ wellFormedFor(pattern, template)
    /\ Len(execAll(pattern, template, 0)) = 1

missingMarker(pattern, fieldName) ==
    (IF pattern = VIETNAMESE_PLACEHOLDER_PATTERN THEN MISSING_VIETNAMESE ELSE MISSING_ENGLISH)
    \o fieldName \o <<"]">>

\* the texts the two replace passes of mergeTemplate put in place of their matches
replacedTexts(template, consultationData, language) ==
    LET ms1 == execAll(VIETNAMESE_PLACEHOLDER_PATTERN, template, 0)
        first == stringReplace(VIETNAMESE_PLACEHOLDER_PATTERN, template,
                               consultationData, language)
        ms2 == IF first.threw THEN <<>> ELSE execAll(PLACEHOLDER_PATTERN, first.value, 0)
    IN  {replacer(VIETNAMESE_PLACEHOLDER_PATTERN, ms1[k].group, consultationData, language) :
            k \in 1..Len(ms1)}
        \cup
        {replacer(PLACEHOLDER_PATTERN, ms2[k].group, consultationData, language) :
            k \in 1..Len(ms2)}

----------------------------------------------------------------------------
(* C1 .. C10                                                               *)

\* C1: whenever render returns, every placeholder occurrence was replaced by
\* a non-empty text (the formatted value or the missing-field marker); none
\* was replaced by nothing.
C1_NoPlaceholderDropped ==
    (call.op = "render" /\ ~ret.threw) =>
        \A r \in replacedTexts(chosenTemplate(call.context),
                               call.context.consultationData, call.context.language) :
            ~r.threw /\ r.value # <<>>

\* C2: render throws exactly when the template set has no entry for the
\* consultation type, and then with the 'Template not found' message that
\* holds the consultation-type key; with the entry present it returns.
C2_ThrowsIffTemplateAbsent ==
    call.op = "render" =>
        /\ ret.threw <=> ~templatePresent(call.context)
        /\ ret.threw =>
               /\ ret.error.message[1] = "Template not found for consultation type: "
               /\ \E i \in 1..Len(ret.error.message) :
                      ret.error.message[i] = call.context.consultationType

\* C3: generatePreview never throws; it returns render's content when render
\* returns, and a warning string that holds render's error message when
\* render throws.
C3_PreviewNeverThrows ==
    call.op = "generatePreview" =>
        LET r == render(call.context, vnLastIndex, phLastIndex, 0).outcome
        IN  /\ ~ret.threw
            /\ ~r.threw => ret.value = r.value.content
            /\ r.threw =>
                   /\ ret.value[1] = PREVIEW_ERROR_PREFIX
                   /\ r.error.message # <<>>
                   /\ includes(ret.value, r.error.message)

\* a preview of a failed render has been produced
C3_Witness ==
    /\ call.op = "generatePreview"
    /\ render(call.context, vnLastIndex, phLastIndex, 0).outcome.threw
    /\ ~ret.threw
    /\ Len(ret.value) > 1

\* C4: renderAll returns one entry per distinct type of the list; the entry
\* of a type whose render throws has non-empty content, empty templateUsed
\* and no placeholders; every other entry is what render returns for that
\* type alone (the timestamp aside).
C4_RenderAllIsolatesFailures ==
    call.op = "renderAll" =>
        LET base == call.baseContext
            types == call.consultationTypes
            alone(type) ==
                render([productId |-> base.productId,
                        productName |-> base.productName,
                        consultationType |-> type,
                        consultationData |-> base.consultationData,
                        templates |-> base.templates,
                        language |-> base.language],
                       vnLastIndex, phLastIndex, 0).outcome
        IN  /\ ~ret.threw
            /\ DOMAIN ret.value = {types[k] : k \in 1..Len(types)}
            /\ \A type \in DOMAIN ret.value :
                   LET entry == ret.value[type]
                       r == alone(type)
                   IN  IF r.threw
                       THEN /\ entry.content # <<>>
                            /\ entry.templateUsed = <<>>
                            /\ entry.placeholders = <<>>
                       ELSE /\ entry.content = r.value.content
                            /\ entry.templateUsed = r.value.templateUsed
                            /\ entry.placeholders = r.value.placeholders
                            /\ entry.metadata.productId = r.value.metadata.productId
                            /\ entry.metadata.consultationType = type
                            /\ entry.metadata.language = r.value.metadata.language

\* a batch of three types whose second type has no template and whose first
\* and third are rendered
C4_Witness ==
    /\ call.op = "renderAll"
    /\ Len(call.consultationTypes) = 3
    /\ ~ret.threw
    /\ Cardinality(DOMAIN ret.value) = 3
    /\ call.consultationTypes[2] \notin DOMAIN call.baseContext.templates
    /\ ret.value[call.consultationTypes[2]].templateUsed = <<>>
    /\ ret.value[call.consultationTypes[1]].templateUsed # <<>>
    /\ ret.value[call.consultationTypes[3]].templateUsed # <<>>

\* what C5 says stands in place of the placeholder {{X}} or {X}
C5_expected(pattern, fieldName, consultationData, language) ==
    IF resolves(consultationData, fieldName)
    THEN formatVietnameseText(getField(consultationData, trim(fieldName)), language).value
    ELSE missingMarker(pattern, fieldName)

\* C5: for a template that is brace-free text around one placeholder, render
\* returns that text with the placeholder replaced by the formatted value
\* when the trimmed name has a non-empty value, else by '[Ch.. : X]' for {{X}}
\* and '[Missing: X]' for {X}, post-processed as a whole, in both languages.
C5_PlaceholderResolution ==
    (call.op = "render" /\ templatePresent(call.context)) =>
        \A pattern \in {VIETNAMESE_PLACEHOLDER_PATTERN, PLACEHOLDER_PATTERN} :
            LET template == chosenTemplate(call.context)
                data == call.context.consultationData
                language == call.context.language
                m == execAll(pattern, template, 0)[1]
            IN  singlePlaceholder(pattern, template) =>
                    /\ ~ret.threw
                    /\ ret.value.content =
                           postProcessVietnameseText(
                               SubSeq(template, 1, m.index - 1)
                               \o C5_expected(pattern, m.group, data, language)
                               \o SubSeq(template, m.lastIndex + 1, Len(template)),
                               language)

\* the template has double-brace placeholders and they all resolve
allResolve(template, consultationData) ==
    LET ms == execAll(VIETNAMESE_PLACEHOLDER_PATTERN, template, 0)
    IN  /\ Len(ms) >= 1
        /\ \A k \in 1..Len(ms) : resolves(consultationData, ms[k].group)

\* no value a double-brace placeholder of the template resolves to holds a brace
valuesBraceFree(template, consultationData) ==
    LET ms == execAll(VIETNAMESE_PLACEHOLDER_PATTERN, template, 0)
    IN  \A k \in 1..Len(ms) : ~hasBrace(consultationData[trim(ms[k].group)])

noDoubleBrace(s) == ~includes(s, <<"{", "{">>) /\ ~includes(s, <<"}", "}">>)

\* C6 as stated: a template whose braces are those of double-brace
\* placeholders that all resolve renders to a content without "{{" and "}}".
C6_NoDoubleBraceLeft ==
    (/\ call.op = "render"
     /\ templatePresent(call.context)
     /\ wellFormedFor(VIETNAMESE_PLACEHOLDER_PATTERN, chosenTemplate(call.context))
     /\ allResolve(chosenTemplate(call.context), call.context.consultationData))
    => (~ret.threw /\ noDoubleBrace(ret.value.content))

\* C6 amended: the same, for data whose substituted values hold no brace.
C6_NoDoubleBraceLeftForBraceFreeValues ==
    (/\ call.op = "render"
     /\ templatePresent(call.context)
     /\ wellFormedFor(VIETNAMESE_PLACEHOLDER_PATTERN, chosenTemplate(call.context))
     /\ allResolve(chosenTemplate(call.context), call.context.consultationData)
     /\ valuesBraceFree(chosenTemplate(call.context), call.context.consultationData))
    => (~ret.threw /\ noDoubleBrace(ret.value.content))

\* a template of two resolvable double-brace placeholders has been rendered
C6_Witness ==
    /\ call.op = "render"
    /\ templatePresent(call.context)
    /\ wellFormedFor(VIETNAMESE_PLACEHOLDER_PATTERN, chosenTemplate(call.context))
    /\ Len(execAll(VIETNAMESE_PLACEHOLDER_PATTERN, chosenTemplate(call.context), 0)) = 2
    /\ allResolve(chosenTemplate(call.context), call.context.consultationData)
    /\ valuesBraceFree(chosenTemplate(call.context), call.context.consultationData)
    /\ ~ret.threw
    /\ ret.value.content # <<>>

\* C7: for a template that is brace-free text around one placeholder whose
\* field is absent from consultationData (and is no inherited member), the
\* content holds the missing-value marker with the field name as written
\* between the braces, or with the trimmed field name.
C7_MarkerEmbedsExactName ==
    (call.op = "render" /\ templatePresent(call.context)) =>
        \A pattern \in {VIETNAMESE_PLACEHOLDER_PATTERN, PLACEHOLDER_PATTERN} :
            LET template == chosenTemplate(call.context)
                fieldName == execAll(pattern, template, 0)[1].group
            IN  (/\ singlePlaceholder(pattern, template)
                 /\ trim(fieldName) \notin DOMAIN call.context.consultationData
                 /\ trim(fieldName) \notin ObjectPrototypeKeys)
                => /\ ~ret.threw
                   /\ \/ includes(ret.value.content, missingMarker(pattern, fieldName))
                      \/ includes(ret.value.content, missingMarker(pattern, trim(fieldName)))

\* the placeholder list of the call that has returned
returnedPlaceholders == ret.value.placeholders

\* the template the call extracted placeholders from
scannedTemplate ==
    IF call.op = "render" THEN chosenTemplate(call.context) ELSE call.template

\* the trimmed field names of the double-brace placeholders of a template
fieldNames(template) ==
    {trim(execAll(VIETNAMESE_PLACEHOLDER_PATTERN, template, 0)[k].group) :
        k \in 1..Len(execAll(VIETNAMESE_PLACEHOLDER_PATTERN, template, 0))}

\* C8: for a template whose braces are those of double-brace placeholders,
\* the placeholder list of render and of validateTemplate holds exactly the
\* trimmed field names, each once, and no name with a leading "{".
C8_PlaceholdersAreTheFieldNames ==
    (/\ \/ call.op = "render" /\ ~ret.threw
        \/ call.op = "validateTemplate"
     /\ wellFormedFor(VIETNAMESE_PLACEHOLDER_PATTERN, scannedTemplate))
    => /\ {returnedPlaceholders[i] : i \in 1..Len(returnedPlaceholders)}
              = fieldNames(scannedTemplate)
       /\ Len(returnedPlaceholders) = Cardinality(fieldNames(scannedTemplate))
       /\ \A i \in 1..Len(returnedPlaceholders) :
              returnedPlaceholders[i] = <<>> \/ returnedPlaceholders[i][1] # "{"

\* C9: validateTemplate("Xin chao {{ten}}", []) is valid, has no error and
\* exactly one warning, which names ten.
C9_OneWarningPerMissingName ==
    (call.op = "validateTemplate" /\ call.template = T_HELLO /\ call.availableFields = <<>>)
    => /\ ret.value.isValid
       /\ ret.value.errors = <<>>
       /\ Len(ret.value.warnings) = 1
       /\ includes(ret.value.warnings[1], F_TEN)

\* C10: validateTemplate reports the unmatched-braces error, as an error and
\* with isValid false, exactly when the template has different numbers of
\* "{" and "}".
C10_BraceMismatchIsError ==
    call.op = "validateTemplate" =>
        LET opens == Cardinality({i \in 1..Len(call.template) : call.template[i] = "{"})
            closes == Cardinality({i \in 1..Len(call.template) : call.template[i] = "}"})
        IN  /\ arrayIncludes(ret.value.errors, ERROR_UNMATCHED_BRACES) <=> opens # closes
            /\ opens # closes => ~ret.value.isValid
            /\ \A i \in 1..Len(ret.value.warnings) :
                   ~includes(ret.value.warnings[i], <<ERROR_UNMATCHED_BRACES>>)

\* "{{ten} " has been validated and found invalid
C10_Witness ==
    /\ call.op = "validateTemplate"
    /\ call.template = T_UNMATCHED
    /\ ~ret.value.isValid
    /\ Len(ret.value.errors) >= 1

----------------------------------------------------------------------------
(* C11 .. C20                                                              *)

\* C11: validateTemplate's isValid is true exactly when its errors list is
\* empty, and the same template validated against any other list of
\* available fields (hence with other warnings) has the same isValid.
C11_ValidIffNoErrors ==
    call.op = "validateTemplate" =>
        /\ ret.value.isValid <=> (ret.value.errors = <<>>)
        /\ \A availableFields \in AvailableFieldLists :
               validateTemplate(call.template, availableFields, 0).outcome.value.isValid
                   = ret.value.isValid

\* a template with balanced braces has been validated with a warning and
\* without an error, and is valid
C11_Witness ==
    /\ call.op = "validateTemplate"
    /\ Len(ret.value.warnings) >= 1
    /\ ret.value.errors = <<>>
    /\ ret.value.isValid

\* C12: validateTemplate reports the empty-template error, with isValid
\* false, for every template that is empty or all whitespace, and does not
\* report it for a template with a non-whitespace character.
C12_EmptyTemplateIsError ==
    call.op = "validateTemplate" =>
        LET blank == \A i \in 1..Len(call.template) : call.template[i] \in Whitespace
        IN  /\ blank => (arrayIncludes(ret.value.errors, ERROR_EMPTY_TEMPLATE)
                         /\ ~ret.value.isValid)
            /\ ~blank => ~arrayIncludes(ret.value.errors, ERROR_EMPTY_TEMPLATE)

\* a template of whitespace only has been validated and found invalid
C12_Witness ==
    /\ call.op = "validateTemplate"
    /\ Len(call.template) >= 1
    /\ \A i \in 1..Len(call.template) : call.template[i] \in Whitespace
    /\ ret.value.errors = <<ERROR_EMPTY_TEMPLATE>>
    /\ ~ret.value.isValid

\* "C<U+00E1>ch d<U+00F9>ng: Thoa <U+0111><U+1EC1>u."
USAGE_RENDERED ==
    <<"C", "U+00E1", "c", "h", " ", "d", "U+00F9", "n", "g", ":", " ",
      "T", "h", "o", "a", " ", "U+0111", "U+1EC1", "u", ".">>

\* render was called in Vietnamese mode on the usage template with the
\* value "thoa <U+0111><U+1EC1>u" for its field
usageRendered ==
    /\ call.op = "render"
    /\ templatePresent(call.context)
    /\ chosenTemplate(call.context) = T_USAGE
    /\ call.context.consultationData = [k \in {F_CACH_THOA} |-> V_THOA_DEU]
    /\ call.context.language = "vietnamese"

\* C13: in Vietnamese mode the usage template with the value "thoa
\* <U+0111><U+1EC1>u" renders to exactly "C<U+00E1>ch d<U+00F9>ng: Thoa
\* <U+0111><U+1EC1>u.": capitalized value, the template's period kept, no
\* double period.
C13_UsageExample ==
    usageRendered =>
        /\ ~ret.threw
        /\ ret.value.content = USAGE_RENDERED
        /\ ~includes(ret.value.content, <<".", ".">>)

\* the usage template has been rendered and its content ends with a period
C13_Witness ==
    /\ usageRendered
    /\ ~ret.threw
    /\ ret.value.content[Len(ret.value.content)] = "."

\* lowercase letters and their capitals: a-z, d-with-stroke, a-acute
isLowercaseLetter(c) == IsAsciiLower(c) \/ c \in {"U+0111", "U+00E1"}

upperOf(c) ==
    IF IsAsciiLower(c) THEN toUpperCase(c)
    ELSE IF c = "U+0111" THEN "U+0110"
    ELSE IF c = "U+00E1" THEN "U+00C1"
    ELSE c

\* C14: for a template that is brace-free text around one placeholder whose
\* value, trimmed, starts with a lowercase letter (accented ones included),
\* the text substituted for the placeholder starts with the capital of
\* that letter.
C14_FirstLetterCapitalized ==
    (call.op = "render" /\ templatePresent(call.context)) =>
        \A pattern \in {VIETNAMESE_PLACEHOLDER_PATTERN, PLACEHOLDER_PATTERN} :
            LET template == chosenTemplate(call.context)
                data == call.context.consultationData
                fieldName == execAll(pattern, template, 0)[1].group
                value == trim(data[trim(fieldName)])
                substituted == replacer(pattern, fieldName, data, call.context.language)
            IN  (/\ singlePlaceholder(pattern, template)
                 /\ resolves(data, fieldName)
                 /\ value # <<>>
                 /\ isLowercaseLetter(value[1]))
                => /\ ~substituted.threw
                   /\ substituted.value # <<>>
                   /\ substituted.value[1] = upperOf(value[1])

\* C15: for a template that is brace-free text around one placeholder with a
\* value: a value that ends in ".", "!" or "?" still ends in that mark after
\* formatting; and when the template has the same mark right after the
\* placeholder, the content does not hold the mark twice in a row.
C15_NoDuplicatedSentenceEnd ==
    (call.op = "render" /\ templatePresent(call.context)) =>
        \A pattern \in {VIETNAMESE_PLACEHOLDER_PATTERN, PLACEHOLDER_PATTERN} :
            LET template == chosenTemplate(call.context)
                data == call.context.consultationData
                m == execAll(pattern, template, 0)[1]
                value == trim(data[trim(m.group)])
                mark == value[Len(value)]
                substituted == replacer(pattern, m.group, data, call.context.language)
            IN  (/\ singlePlaceholder(pattern, template)
                 /\ resolves(data, m.group)
                 /\ value # <<>>
                 /\ mark \in SentenceEnd)
                => /\ ~substituted.threw
                   /\ substituted.value # <<>>
                   /\ substituted.value[Len(substituted.value)] = mark
                   /\ (m.lastIndex < Len(template) /\ template[m.lastIndex + 1] = mark)
                          => (~ret.threw /\ ~includes(ret.value.content, <<mark, mark>>))

\* the template with the double-brace placeholders replaced, then the
\* single-brace ones: the string mergeTemplate hands to post-processing
mergedString(context) ==
    stringReplace(PLACEHOLDER_PATTERN,
                  stringReplace(VIETNAMESE_PLACEHOLDER_PATTERN, chosenTemplate(context),
                                context.consultationData, context.language).value,
                  context.consultationData, context.language).value

\* C16: in Vietnamese mode the content render returns has no whitespace
\* right before "," "." "!" "?", no "." "!" "?" right before a capital letter,
\* no two whitespace characters in a row, and no whitespace at either end.
C16_VietnameseContentNormalised ==
    (call.op = "render" /\ call.context.language = "vietnamese" /\ ~ret.threw) =>
        LET content == ret.value.content
        IN  /\ \A i \in 1..(Len(content) - 1) :
                   /\ ~(content[i] \in Whitespace /\ content[i + 1] \in Punctuation)
                   /\ ~(content[i] \in SentenceEnd /\ content[i + 1] \in VietnameseUpper)
                   /\ ~(content[i] \in Whitespace /\ content[i + 1] \in Whitespace)
            /\ content # <<>> =>
                   (content[1] \notin Whitespace /\ content[Len(content)] \notin Whitespace)

\* a template with " .B", a line break run and a trailing space has been
\* rendered in Vietnamese mode, and the content reads ". B"
C16_Witness ==
    /\ call.op = "render"
    /\ call.context.language = "vietnamese"
    /\ templatePresent(call.context)
    /\ includes(chosenTemplate(call.context), <<" ", ".", "B", "\n", "\n">>)
    /\ chosenTemplate(call.context)[Len(chosenTemplate(call.context))] = " "
    /\ ~ret.threw
    /\ includes(ret.value.content, <<".", " ", "B", " ">>)

\* C17: in English mode the content render returns is the merged string
\* with leading and trailing whitespace removed and nothing else changed; a
\* template without placeholders comes back as it is, trimmed.
C17_EnglishOnlyTrims ==
    (call.op = "render" /\ call.context.language = "english" /\ ~ret.threw) =>
        /\ ret.value.content = trim(mergedString(call.context))
        /\ \E lead \in 0..Len(mergedString(call.context)) :
               /\ \A i \in 1..lead : mergedString(call.context)[i] \in Whitespace
               /\ \A i \in (lead + Len(ret.value.content) + 1)..Len(mergedString(call.context)) :
                      mergedString(call.context)[i] \in Whitespace
               /\ \A i \in 1..Len(ret.value.content) :
                      ret.value.content[i] = mergedString(call.context)[lead + i]
        /\ (/\ execAll(VIETNAMESE_PLACEHOLDER_PATTERN, chosenTemplate(call.context), 0) = <<>>
            /\ execAll(PLACEHOLDER_PATTERN, chosenTemplate(call.context), 0) = <<>>)
           => ret.value.content = trim(chosenTemplate(call.context))

\* a template with " .B", a line break run and a trailing space has been
\* rendered in English mode, and the content still holds " .B" and the run
C17_Witness ==
    /\ call.op = "render"
    /\ call.context.language = "english"
    /\ templatePresent(call.context)
    /\ includes(chosenTemplate(call.context), <<" ", ".", "B", "\n", "\n">>)
    /\ chosenTemplate(call.context)[Len(chosenTemplate(call.context))] = " "
    /\ ~ret.threw
    /\ includes(ret.value.content, <<" ", ".", "B", "\n", "\n">>)
    /\ ret.value.content[Len(ret.value.content)] # " "

\* the lookup of the trimmed field name gives nothing to substitute
unresolved(consultationData, fieldName) ==
    ~truthy(getField(consultationData, trim(fieldName)))

\* "[Ch<U+01B0>a c<U+00F3> th<U+00F4>ng tin:", the marker's head
VIETNAMESE_MARKER_HEAD == SubSeq(MISSING_VIETNAMESE, 1, Len(MISSING_VIETNAMESE) - 1)

\* the template has double-brace placeholders and none of them resolves
noneResolves(template, consultationData) ==
    LET ms == execAll(VIETNAMESE_PLACEHOLDER_PATTERN, template, 0)
    IN  /\ Len(ms) >= 1
        /\ \A k \in 1..Len(ms) : unresolved(consultationData, ms[k].group)

\* C18: the content render returns is the post-processing, applied once, of
\* the template with the double-brace placeholders replaced first and the
\* single-brace ones second; a template whose braces are those of
\* double-brace placeholders, all unresolved, renders with the Vietnamese
\* marker and without "[Missing: ".
C18_DoubleBraceFirst ==
    (call.op = "render" /\ templatePresent(call.context)) =>
        /\ ~ret.threw =>
               ret.value.content =
                   postProcessVietnameseText(mergedString(call.context), call.context.language)
        /\ (/\ wellFormedFor(VIETNAMESE_PLACEHOLDER_PATTERN, chosenTemplate(call.context))
            /\ noneResolves(chosenTemplate(call.context), call.context.consultationData))
           => /\ ~ret.threw
              /\ includes(ret.value.content, VIETNAMESE_MARKER_HEAD)
              /\ ~includes(ret.value.content, MISSING_ENGLISH)

\* a template with an unresolved double-brace placeholder and a single-brace
\* placeholder has been rendered, and the content holds both markers
C18_Witness ==
    /\ call.op = "render"
    /\ templatePresent(call.context)
    /\ includes(chosenTemplate(call.context), <<"{", "{", "a", "}", "}", " ", "{", "a", "}">>)
    /\ call.context.consultationData = << >>
    /\ ~ret.threw
    /\ includes(ret.value.content, VIETNAMESE_MARKER_HEAD)
    /\ includes(ret.value.content, MISSING_ENGLISH)
    /\ ret.value.content[1] = "["
    /\ ret.value.content[2] = "C"

\* the entries of the list vietnameseMatch accepts, by content or by type
acceptedEntries(consultations, query, matches) ==
    {i \in 1..Len(consultations) :
        \/ <<consultations[i].content, query>> \in matches
        \/ <<<<consultations[i].metadata.consultationType>>, query>> \in matches}

\* the k-th smallest member of a set of numbers
kth(S, k) == CHOOSE i \in S : Cardinality({j \in S : j <= i}) = k

\* C19: searchConsultationContent returns its input list as it is for an
\* empty or all-whitespace query; for any other query it returns, in input
\* order, exactly the entries whose content or consultation type matches.
C19_SearchFilters ==
    call.op = "searchConsultationContent" =>
        LET input == call.consultations
            blank == \A i \in 1..Len(call.query) : call.query[i] \in Whitespace
            keep == acceptedEntries(input, call.query, call.matches)
        IN  /\ ~ret.threw
            /\ blank => ret.value = input
            /\ ~blank =>
                   /\ Len(ret.value) = Cardinality(keep)
                   /\ \A k \in 1..Len(ret.value) : ret.value[k] = input[kth(keep, k)]

\* a search has kept an entry whose type alone matches and dropped another
C19_Witness ==
    /\ call.op = "searchConsultationContent"
    /\ call.query = <<"b">>
    /\ Len(call.consultations) = 3
    /\ Len(ret.value) = 1
    /\ ret.value[1] = call.consultations[2]
    /\ <<ret.value[1].content, call.query>> \notin call.matches
    /\ <<<<ret.value[1].metadata.consultationType>>, call.query>> \in call.matches

\* the sum of the values of a function with a finite domain
RECURSIVE sumOver(_, _)
sumOver(f, keys) ==
    IF keys = {} THEN 0
    ELSE LET key == CHOOSE k \in keys : TRUE
         IN  f[key] + sumOver(f, keys \ {key})

\* C20: generateStats returns the list length as totalConsultations; per
\* type and per language the number of entries with it, each summing to
\* the list length; averageContentLength the integer nearest to the mean
\* content length, 0 for the empty list; lastRenderTime the greatest render
\* time of the list, null for the empty list.
C20_StatsAggregate ==
    call.op = "generateStats" =>
        LET list == call.consultations
            n == Len(list)
            stats == ret.value
            lengths == [i \in 1..n |-> Len(list[i].content)]
            types == {list[i].metadata.consultationType : i \in 1..n}
            languages == {list[i].metadata.language : i \in 1..n}
        IN  /\ ~ret.threw
            /\ stats.totalConsultations = n
            /\ DOMAIN stats.templateUsage = types
            /\ \A type \in types :
                   stats.templateUsage[type] =
                       Cardinality({i \in 1..n : list[i].metadata.consultationType = type})
            /\ sumOver(stats.templateUsage, types) = n
            /\ DOMAIN stats.languageDistribution = languages
            /\ \A language \in languages :
                   stats.languageDistribution[language] =
                       Cardinality({i \in 1..n : list[i].metadata.language = language})
            /\ sumOver(stats.languageDistribution, languages) = n
            /\ n = 0 => (stats.averageContentLength = 0 /\ stats.lastRenderTime = NULL)
            /\ n > 0 =>
                   /\ 2 * stats.averageContentLength * n - 2 * sumOver(lengths, 1..n) \in (0 - n)..n
                   /\ stats.lastRenderTime.kind = "date"
                   /\ stats.lastRenderTime.time =
                          Max({list[i].metadata.renderTime : i \in 1..n})

\* statistics of a list whose latest entry is not its last one and whose
\* mean content length is not an integer
C20_Witness ==
    /\ call.op = "generateStats"
    /\ Len(call.consultations) = 3
    /\ call.consultations[3].metadata.renderTime < call.consultations[1].metadata.renderTime
    /\ ret.value.lastRenderTime = date(call.consultations[1].metadata.renderTime)
    /\ ret.value.averageContentLength * 3
           # Len(call.consultations[1].content) + Len(call.consultations[2].content)
             + Len(call.consultations[3].content)
    /\ Cardinality(DOMAIN ret.value.templateUsage) = 2

----------------------------------------------------------------------------
(* C21 .. C30                                                              *)

\* what the call returns when no other call is in progress
alone(c) ==
    IF c.op = "render"
    THEN render(c.context, 0, 0, 0).outcome
    ELSE validateTemplate(c.template, c.availableFields, 0).outcome

\* C21: when calls of render and validateTemplate are interleaved step by
\* step, every call that has returned has returned the content and the
\* placeholder list it returns when it runs alone.
C21_InterleavedCallsAsAlone ==
    call.op = "interleaved" =>
        \A p \in Procs :
            ret[p].done =>
                /\ ret[p].outcome.threw = alone(call.calls[p]).threw
                /\ ~ret[p].outcome.threw =>
                       /\ ret[p].outcome.value.placeholders
                              = alone(call.calls[p]).value.placeholders
                       /\ call.calls[p].op = "render" =>
                              ret[p].outcome.value.content
                                  = alone(call.calls[p]).value.content

\* the clock readings of a batch when every reading is 0
zeroTimes(consultationTypes) == [k \in 1..Len(consultationTypes) |-> 0]

\* the result of render without its timestamp
untimed(outcome) ==
    IF outcome.threw THEN outcome
    ELSE returned([content |-> outcome.value.content,
                   templateUsed |-> outcome.value.templateUsed,
                   placeholders |-> outcome.value.placeholders])

\* C22: whatever calls came before, a call of render, generatePreview,
\* validateTemplate or renderAll returns what the same call returns when it
\* is the first one (both patterns at lastIndex 0): same content,
\* placeholders, errors, warnings and error, the timestamp aside.
C22_SameResultAsFirstCall ==
    /\ call.op = "render" =>
           untimed(ret) = untimed(render(call.context, 0, 0, 0).outcome)
    /\ call.op = "generatePreview" =>
           ret = generatePreview(call.context, 0, 0, 0).outcome
    /\ call.op = "validateTemplate" =>
           ret = validateTemplate(call.template, call.availableFields, 0).outcome
    /\ call.op = "renderAll" =>
           /\ ~ret.threw
           /\ \A type \in DOMAIN ret.value :
                  untimed(returned(ret.value[type]))
                      = untimed(returned(
                            renderAll(call.baseContext, call.consultationTypes, 0, 0,
                                      zeroTimes(call.consultationTypes)).outcome.value[type]))

\* a template with two double-brace placeholders has been validated, after
\* which both patterns are back at the start
C22_Witness ==
    /\ call.op = "validateTemplate"
    /\ Len(execAll(VIETNAMESE_PLACEHOLDER_PATTERN, call.template, 0)) = 2
    /\ Len(ret.value.placeholders) = 2
    /\ vnLastIndex = 0

\* C23: render leaves its context as it was, whether it returns or throws;
\* a result it returns has the chosen template as templateUsed and the
\* context's productId, consultationType and language in its metadata.
C23_ContextKeptResultLabelled ==
    call.op = "render" =>
        /\ call.contextAfter = call.context
        /\ call.contextAfter.templates = call.context.templates
        /\ call.contextAfter.consultationData = call.context.consultationData
        /\ ~ret.threw =>
               /\ ret.value.templateUsed = chosenTemplate(call.context)
               /\ ret.value.metadata.productId = call.context.productId
               /\ ret.value.metadata.consultationType = call.context.consultationType
               /\ ret.value.metadata.language = call.context.language

\* a render has returned a content that differs from its template
C23_Witness ==
    /\ call.op = "render"
    /\ ~ret.threw
    /\ ret.value.content # ret.value.templateUsed
    /\ ret.value.templateUsed = chosenTemplate(call.context)
    /\ ret.value.metadata.language = "english"

\* C24: between the public operations, after any sequence of them, both
\* patterns have lastIndex 0; validateTemplate's placeholder list is the
\* one of a scan of the whole template.
C24_LastIndexZero ==
    /\ vnLastIndex = 0
    /\ phLastIndex = 0
    /\ call.op = "validateTemplate" =>
           ret.value.placeholders =
               addGroups(addGroups(<<>>, execAll(VIETNAMESE_PLACEHOLDER_PATTERN,
                                                 call.template, 0), 1),
                         execAll(PLACEHOLDER_PATTERN, call.template, 0), 1)

\* a render has thrown out of a replace callback, and both patterns are at
\* the start
C24_Witness ==
    /\ call.op = "render"
    /\ templatePresent(call.context)
    /\ chosenTemplate(call.context) # <<>>
    /\ ret.threw
    /\ vnLastIndex = 0
    /\ phLastIndex = 0

\* "{g}"
G_PLACEHOLDER == <<"{", "g", "}">>

\* the template with its one placeholder replaced by the formatted value
withValue(pattern, template, consultationData, language) ==
    LET m == execAll(pattern, template, 0)[1]
    IN  SubSeq(template, 1, m.index - 1)
        \o formatVietnameseText(getField(consultationData, trim(m.group)), language).value
        \o SubSeq(template, m.lastIndex + 1, Len(template))

\* the one placeholder of the template has a non-empty value
oneResolved(pattern, context) ==
    /\ templatePresent(context)
    /\ singlePlaceholder(pattern, chosenTemplate(context))
    /\ resolves(context.consultationData,
                execAll(pattern, chosenTemplate(context), 0)[1].group)

\* the value of the one placeholder of the template
valueOfOne(pattern, context) ==
    context.consultationData[trim(execAll(pattern, chosenTemplate(context), 0)[1].group)]

\* C25: the value put in place of a double-brace placeholder goes through
\* the single-brace replace (a "{g}" in it is replaced by g's value or by
\* "[Missing: g]"); the value put in place of a single-brace placeholder is
\* left as it is (a "{g}" in it stays).
C25_DoubleBraceValueRescanned ==
    call.op = "render" =>
        /\ oneResolved(VIETNAMESE_PLACEHOLDER_PATTERN, call.context) =>
               LET data == call.context.consultationData
                   language == call.context.language
                   second == stringReplace(
                                 PLACEHOLDER_PATTERN,
                                 withValue(VIETNAMESE_PLACEHOLDER_PATTERN,
                                           chosenTemplate(call.context), data, language),
                                 data, language)
               IN  /\ ~ret.threw
                   /\ ~second.threw
                   /\ ret.value.content = postProcessVietnameseText(second.value, language)
                   /\ includes(valueOfOne(VIETNAMESE_PLACEHOLDER_PATTERN, call.context),
                               G_PLACEHOLDER)
                          => /\ ~includes(ret.value.content, G_PLACEHOLDER)
                             /\ includes(ret.value.content,
                                         C5_expected(PLACEHOLDER_PATTERN, <<"g">>, data, language))
        /\ oneResolved(PLACEHOLDER_PATTERN, call.context) =>
               /\ ~ret.threw
               /\ ret.value.content =
                      postProcessVietnameseText(
                          withValue(PLACEHOLDER_PATTERN, chosenTemplate(call.context),
                                    call.context.consultationData, call.context.language),
                          call.context.language)
               /\ includes(valueOfOne(PLACEHOLDER_PATTERN, call.context), G_PLACEHOLDER)
                      => includes(ret.value.content, G_PLACEHOLDER)

\* "{{a}}" has been rendered with a = "{g}" and g = "b", and the content is "B"
C25_Witness ==
    /\ call.op = "render"
    /\ oneResolved(VIETNAMESE_PLACEHOLDER_PATTERN, call.context)
    /\ valueOfOne(VIETNAMESE_PLACEHOLDER_PATTERN, call.context) = G_PLACEHOLDER
    /\ <<"g">> \in DOMAIN call.context.consultationData
    /\ ~ret.threw
    /\ ret.value.content = <<"B">>

\* the text is the missing-value marker of the pattern for the field name
isMarker(substituted, pattern, fieldName) ==
    ~substituted.threw /\ substituted.value = missingMarker(pattern, fieldName)

\* C26: for a template that is brace-free text around one placeholder, the
\* placeholder is replaced by its missing-value marker exactly when the
\* trimmed name is absent from consultationData or has the empty string as
\* its value; a non-empty value of whitespace only is replaced by the empty
\* string and the content holds no marker.
C26_MarkerIffAbsentOrEmpty ==
    (call.op = "render" /\ templatePresent(call.context)) =>
        \A pattern \in {VIETNAMESE_PLACEHOLDER_PATTERN, PLACEHOLDER_PATTERN} :
            LET template == chosenTemplate(call.context)
                data == call.context.consultationData
                fieldName == execAll(pattern, template, 0)[1].group
                substituted == replacer(pattern, fieldName, data, call.context.language)
            IN  singlePlaceholder(pattern, template) =>
                    /\ isMarker(substituted, pattern, fieldName)
                           <=> (\/ trim(fieldName) \notin DOMAIN data
                                \/ data[trim(fieldName)] = <<>>)
                    /\ (/\ resolves(data, fieldName)
                        /\ trim(data[trim(fieldName)]) = <<>>)
                       => /\ ~substituted.threw
                          /\ substituted.value = <<>>
                          /\ ~ret.threw
                          /\ ~includes(ret.value.content, VIETNAMESE_MARKER_HEAD)
                          /\ ~includes(ret.value.content, MISSING_ENGLISH)

\* other values for the fields of a context that name the product and the
\* customer, the optional ones included
OtherLabels ==
    {[productId |-> "p2", productName |-> "n2", categoryName |-> "c2",
      industryName |-> "i2", customerName |-> "u2", customerContext |-> "x2"],
     [productId |-> "p1", productName |-> "b", categoryName |-> "c1",
      industryName |-> "i1", customerName |-> "u1", customerContext |-> "x1"]}

\* the context with those fields replaced and the rest as it is
relabelled(context, labels) ==
    [productId |-> labels.productId,
     productName |-> labels.productName,
     categoryName |-> labels.categoryName,
     industryName |-> labels.industryName,
     customerName |-> labels.customerName,
     customerContext |-> labels.customerContext,
     consultationType |-> context.consultationType,
     consultationData |-> context.consultationData,
     templates |-> context.templates,
     language |-> context.language]

\* what render returns or throws, without the metadata
contentOf(outcome) ==
    IF outcome.threw THEN outcome ELSE returned(outcome.value.content)

\* C27: render returns the same content for a context that differs only in
\* productId, productName, categoryName, industryName, customerName or
\* customerContext; "{productName}" renders as the value of the field
\* productName of consultationData when there is one, else as
\* "[Missing: productName]".
C27_ContentIgnoresProductFields ==
    call.op = "render" =>
        /\ \A labels \in OtherLabels :
               contentOf(render(relabelled(call.context, labels), 0, 0, 0).outcome)
                   = contentOf(ret)
        /\ (templatePresent(call.context) /\ chosenTemplate(call.context) = T_PRODUCT) =>
               /\ ~ret.threw
               /\ ret.value.content =
                      IF resolves(call.context.consultationData, F_PRODUCT_NAME)
                      THEN postProcessVietnameseText(
                               formatVietnameseText(
                                   getField(call.context.consultationData, F_PRODUCT_NAME),
                                   call.context.language).value,
                               call.context.language)
                      ELSE MISSING_ENGLISH \o F_PRODUCT_NAME \o <<"]">>

\* "{productName}" has been rendered for a product with a name and data
\* without the field productName, and the content is the marker
C27_Witness ==
    /\ call.op = "render"
    /\ templatePresent(call.context)
    /\ chosenTemplate(call.context) = T_PRODUCT
    /\ call.context.productName = "n1"
    /\ F_PRODUCT_NAME \notin DOMAIN call.context.consultationData
    /\ ~ret.threw
    /\ ret.value.content = MISSING_ENGLISH \o F_PRODUCT_NAME \o <<"]">>

\* C28: validateTemplate never returns more than one error: no template
\* gets both the unmatched-braces error and the empty-template error.
C28_AtMostOneError ==
    call.op = "validateTemplate" =>
        /\ Len(ret.value.errors) <= 1
        /\ ~(/\ arrayIncludes(ret.value.errors, ERROR_UNMATCHED_BRACES)
              /\ arrayIncludes(ret.value.errors, ERROR_EMPTY_TEMPLATE))
        /\ (\A i \in 1..Len(call.template) : call.template[i] \in Whitespace)
               => (countChar(call.template, "{") = countChar(call.template, "}"))

\* a template of whitespace and an unclosed brace has been validated; its
\* one error is the unmatched-braces error
C28_Witness ==
    /\ call.op = "validateTemplate"
    /\ \E i \in 1..Len(call.template) : call.template[i] \in Whitespace
    /\ \A i \in 1..Len(call.template) : call.template[i] \in Whitespace \cup {"{"}
    /\ ret.value.errors = <<ERROR_UNMATCHED_BRACES>>

\* "}a{" and "{}"
UnpairedTemplates == {<<"}", "a", "{">>, <<"{", "}">>}

\* C29: validateTemplate finds every template valid that has a
\* non-whitespace character and as many "{" as "}", whatever the order of
\* the braces; render of "}a{" or "{}", and of any template in which no
\* pattern matches, returns the template's braces in the content.
C29_OnlyBraceCountsCompared ==
    /\ (/\ call.op = "validateTemplate"
        /\ \E i \in 1..Len(call.template) : call.template[i] \notin Whitespace
        /\ countChar(call.template, "{") = countChar(call.template, "}"))
       => (ret.value.isValid /\ ret.value.errors = <<>>)
    /\ (/\ call.op = "render"
        /\ templatePresent(call.context)
        /\ chosenTemplate(call.context) \in UnpairedTemplates)
       => (~ret.threw /\ ret.value.content = chosenTemplate(call.context))
    /\ (/\ call.op = "render"
        /\ templatePresent(call.context)
        /\ chosenTemplate(call.context) # <<>>
        /\ execAll(VIETNAMESE_PLACEHOLDER_PATTERN, chosenTemplate(call.context), 0) = <<>>
        /\ execAll(PLACEHOLDER_PATTERN, chosenTemplate(call.context), 0) = <<>>)
       => /\ ~ret.threw
          /\ countChar(ret.value.content, "{") = countChar(chosenTemplate(call.context), "{")
          /\ countChar(ret.value.content, "}") = countChar(chosenTemplate(call.context), "}")

\* "}a{" has been validated and found valid
C29_Witness ==
    /\ call.op = "validateTemplate"
    /\ call.template = <<"}", "a", "{">>
    /\ ret.value.isValid
    /\ ret.value.errors = <<>>

\* C30: post-processing in Vietnamese mode the result of post-processing a
\* text returns that result unchanged.
C30_PostProcessIdempotent ==
    (/\ call.op = "postProcessVietnameseText"
     /\ call.language = "vietnamese"
     /\ call.applications = MaxApplications)
    => ret.value = postProcessVietnameseText(call.text, "vietnamese")

\* a text that the first post-processing changes at every step (whitespace
\* before a mark, a mark before a capital, a line break, a trailing space)
\* has been post-processed
\* again and again
C30_Witness ==
    /\ call.op = "postProcessVietnameseText"
    /\ call.language = "vietnamese"
    /\ call.applications = MaxApplications
    /\ call.text = <<"\n", ".", "B", " ">>
    /\ ret.value = <<".", " ", "B">>

====
